---- MODULE Spec2Model ----
(***************************************************************************)
(* Model of `please`: the session controller (src/main.rs) and the raw     *)
(* keystroke decoder with its line-editor hand-off (src/ui.rs).            *)
(*                                                                         *)
(* Text is a sequence of bytes (0..255); a Rust String/&str is a sequence  *)
(* of bytes that is valid UTF-8.                                           *)
(***************************************************************************)
EXTENDS Integers, Sequences, FiniteSets, TLC

(***************************************************************************)
(* Bounds                                                                  *)
(***************************************************************************)
\* swallowed inputs (first-position timeouts, unrecognised escape
\* sequences) the user produces within one decode call
MaxNoise == 2
\* Feedback rounds the user gives within one session
MaxRefines == 1

(***************************************************************************)
(* Bytes and text                                                          *)
(***************************************************************************)
ESC == 27
CR == 13
LF == 10
LBRACKET == 91
ArrowBytes == {65, 66, 67, 68}
LEFT == 68

\* the bytes the terminal delivers in the model: Ctrl-D, LF, CR, ESC,
\* 'A', 'C', 'D', 'Z', '[' and 0xC3 (the lead byte of a two-byte character)
Bytes == {4, LF, CR, ESC, 65, 67, 68, 90, LBRACKET, 195}

\* "ls", "" and "eé" (the last one ends in the two-byte character C3 A9)
Commands == { <<108, 115>>, << >>, <<101, 195, 169>> }

\* `buf[0] as char` followed by format!("{}", input_char): the byte becomes
\* the code point of the same value, written out in UTF-8
EncodeUtf8(cp) ==
    IF cp < 128 THEN << cp >>
    ELSE << 192 + (cp \div 64), 128 + (cp % 64) >>

\* str::is_char_boundary: 0 and len are boundaries, an index past len is
\* not, and otherwise the byte at the index must not be a continuation byte
\* (10xxxxxx).  A negative index stands for the wrapped-around usize.
IsCharBoundary(s, i) ==
    IF i = 0 THEN TRUE
    ELSE IF i < 0 \/ i > Len(s) THEN FALSE
    ELSE IF i = Len(s) THEN TRUE
    ELSE s[i + 1] < 128 \/ s[i + 1] >= 192

\* str::split_at(mid) when mid is a char boundary
SplitAt(s, mid) == << SubSeq(s, 1, mid), SubSeq(s, mid + 1, Len(s)) >>

\* the seed handed to the line editor by the arrow-key path
\* (command.len() - 1 underflows for the empty command: the subtraction
\* panics in a debug build and wraps in a release build, where split_at
\* then panics because the index is past the end)
ArrowSeedPanics(c, command) ==
    c = LEFT /\ ~IsCharBoundary(command, Len(command) - 1)

\* variant: the keys other than left put the cursor at the start
ArrowSeed_CursorAtStart(c, command) ==
    IF c = LEFT THEN SplitAt(command, Len(command) - 1)
    ELSE << << >>, command >>

\* variant: left arrow puts the cursor at the very end
ArrowSeed_LeftAtEnd(c, command) == << command, << >> >>

ArrowSeed(c, command) ==
    IF c = LEFT THEN SplitAt(command, Len(command) - 1)
    ELSE << command, << >> >>

\* line 113: input_char == '\n' || input_char == '\r'
IsEnter(b) == b = LF \/ b = CR

\* variant: a line feed is appended to the command that is run
RunAction_Newline(command) == [kind |-> "Run", text |-> command \o << LF >>]

\* line 116: UserAction::RunCommand(command.to_string())
RunAction(command) == [kind |-> "Run", text |-> command]

\* the seed handed to the line editor by the feedback path
FeedbackSeed(b) == << EncodeUtf8(b), << >> >>

\* lines the user can confirm in the line editor, given the seed: the seed
\* untouched, a character typed at the cursor, everything before the cursor
\* deleted
EditorLines(initial) ==
    { initial[1] \o initial[2],
      initial[1] \o << 120 >> \o initial[2],
      initial[2] }

(***************************************************************************)
(* Terminal settings (termios)                                             *)
(***************************************************************************)
\* settings of the terminal before the program starts
OrigSettings ==
    { [lflag |-> {"ICANON", "ECHO", "ISIG"}, vmin |-> 1, vtime |-> 0],
      [lflag |-> {"ICANON", "ISIG"}, vmin |-> 1, vtime |-> 0] }

NoTio == [lflag |-> {"none"}, vmin |-> 0, vtime |-> 0]

\* new_tio: canonical mode and echo off, VMIN = 0, VTIME = 1
RawMode(tio) ==
    [lflag |-> tio.lflag \ {"ICANON", "ECHO"}, vmin |-> 0, vtime |-> 1]

(***************************************************************************)
(* Configuration and command line                                          *)
(***************************************************************************)
W_sh == <<115, 104>>
W_bash == <<98, 97, 115, 104>>
W_zsh == <<122, 115, 104>>
W_env == <<47, 117, 115, 114, 47, 98, 105, 110, 47, 101, 110, 118>>
W_dashc == <<45, 99>>

\* config.shell after split_whitespace: "", "sh", "/usr/bin/env bash"
Shells == { << >>, << W_sh >>, << W_env, W_bash >> }

HelpWords == { <<45, 45, 104, 101, 108, 112>>, <<45, 104>>,
               <<104, 101, 108, 112>> }
ConfigWords == { <<45, 45, 99, 111, 110, 102, 105, 103>>, <<45, 67>>,
                 <<99, 111, 110, 102, 105, 103>> }
ContinueWords == { <<45, 45, 99, 111, 110, 116, 105, 110, 117, 101>>,
                   <<45, 99>>, <<99, 111, 110, 116, 105, 110, 117, 101>> }
DieWords == { <<100, 105, 101>>, <<101, 120, 105, 116>>,
              <<113, 117, 105, 116>> }

\* env::args() without the program name: nothing, "-h", "-C", "-c", "die"
\* and the request "die -h"
ArgLists ==
    { << >>, << <<45, 104>> >>, << <<45, 67>> >>, << <<45, 99>> >>,
      << <<100, 105, 101>> >>,
      << <<100, 105, 101>>, <<45, 104>> >> }

RECURSIVE JoinSpace(_)
\* args[1..].join(" ")
JoinSpace(ws) ==
    IF Len(ws) = 0 THEN << >>
    ELSE IF Len(ws) = 1 THEN ws[1]
    ELSE ws[1] \o << 32 >> \o JoinSpace(Tail(ws))

\* the request taken from the command line (lines 38-64)
UserRequest(as) == IF Len(as) = 1 THEN as[1] ELSE JoinSpace(as)

\* str::contains
Contains(s, pat) ==
    \E i \in 0 .. (Len(s) - Len(pat)) : SubSeq(s, i + 1, i + Len(pat)) = pat

\* "shopt -s extglob globstar nullglob\n"
ShoptPrefix ==
    <<115, 104, 111, 112, 116, 32, 45, 115, 32,
      101, 120, 116, 103, 108, 111, 98, 32,
      103, 108, 111, 98, 115, 116, 97, 114, 32,
      110, 117, 108, 108, 103, 108, 111, 98, 10>>

\* variant: the command is passed on as it is for every shell
ShellCommandText_NoPrefix(command, shell) == command

\* the text run_command passes after "-c"
ShellCommandText(command, shell) ==
    LET shell_name == shell[Len(shell)]
    IN  IF Contains(shell_name, W_bash) \/ Contains(shell_name, W_zsh)
        THEN ShoptPrefix \o command
        ELSE command

\* the process run_command spawns: program followed by its arguments
ShellArgv(command, shell) ==
    shell \o << W_dashc, ShellCommandText(command, shell) >>

NoText == << >>
NoAction == [kind |-> "None", text |-> NoText]
NoRefine == [request |-> NoText, previous |-> NoText, feedback |-> NoText]


(***************************************************************************)
(* State                                                                   *)
(***************************************************************************)
VARIABLES
    args,             \* command-line arguments after the program name
    api_key_empty,    \* config.api_key.is_empty()
    shell,            \* config.shell, split at whitespace
    orig,             \* the terminal's settings before the program started
    quiet,            \* config.quiet
    user_request,     \* main: user_request
    mpc,              \* main: position
    exit_code,        \* process exit status, -1 while running
    cause,            \* why the process ended
    current_command,  \* main: current_command (the candidate)
    term,             \* the terminal's current settings
    dpc,              \* display_command_and_get_action: position
    old_tio,          \* decoder: settings captured at entry
    buf,              \* decoder: buf[0]
    next,             \* decoder: next[0]
    third,            \* decoder: third[0]
    initial,          \* seed handed to the line editor
    edKind,           \* which variant wraps the editor's line
    action,           \* the decoder's result, as main's match sees it
    noise,            \* swallowed inputs in this decode call
    lastRead,         \* the latest read: where in the loop, and its outcome
    editorCalls,      \* line-editor invocations in this decode call
    restores,         \* tcsetattr(old_tio) calls in this decode call
    decodeCalls,      \* decode calls in this session
    events,           \* what this decode call did to terminal and screen, in order
    requestCalls,     \* request_command calls
    refineCalls,      \* refine_command calls
    lastRefine,       \* arguments of the latest refine_command call
    lastResult,       \* command text of the latest successful model call
    runCalls,         \* run_command calls
    lastRun,          \* command argument of the latest run_command call
    spawnCalls,       \* processes spawned by run_command
    lastSpawn         \* argv of the latest spawned process

cfgVars == << args, api_key_empty, shell, orig, quiet >>
mainVars == << user_request, mpc, exit_code, cause, current_command >>
decVars == << dpc, old_tio, buf, next, third, initial, edKind, action,
              noise, lastRead, editorCalls, restores, decodeCalls, events >>
modelVars == << requestCalls, refineCalls, lastRefine, lastResult >>
runVars == << runCalls, lastRun, spawnCalls, lastSpawn >>
vars == << cfgVars, mainVars, term, decVars, modelVars, runVars >>

TIMEOUT == -1
IOERR == -2
NOREAD == -3
NoRead == [pos |-> "none", val |-> NOREAD]

Init ==
    /\ args \in ArgLists
    /\ api_key_empty \in BOOLEAN
    /\ shell \in Shells
    /\ orig \in OrigSettings
    /\ quiet \in BOOLEAN
    /\ user_request = NoText
    /\ mpc = "start"
    /\ exit_code = -1
    /\ cause = "running"
    /\ current_command = NoText
    /\ term = orig
    /\ dpc = "idle"
    /\ old_tio = NoTio
    /\ buf = 0
    /\ next = 0
    /\ third = 0
    /\ initial = << NoText, NoText >>
    /\ edKind = "None"
    /\ action = NoAction
    /\ noise = 0
    /\ lastRead = NoRead
    /\ editorCalls = 0
    /\ restores = 0
    /\ decodeCalls = 0
    /\ events = << >>
    /\ requestCalls = 0
    /\ refineCalls = 0
    /\ lastRefine = NoRefine
    /\ lastResult = NoText
    /\ runCalls = 0
    /\ lastRun = NoText
    /\ spawnCalls = 0
    /\ lastSpawn = << >>

(***************************************************************************)
(* main: start-up (main.rs lines 14-90)                                    *)
(***************************************************************************)
\* the process ends with the given status
Exit(code, why) ==
    /\ mpc' = "exited"
    /\ exit_code' = code
    /\ cause' = why

IsKeyword(as, words) == Len(as) = 1 /\ as[1] \in words

IsRequest(as) ==
    /\ Len(as) >= 1
    /\ ~IsKeyword(as, HelpWords \cup ConfigWords \cup ContinueWords
                      \cup DieWords)

StartupExit(code, why) ==
    /\ mpc = "start"
    /\ Exit(code, why)
    /\ UNCHANGED << cfgVars, user_request, current_command, term, decVars,
                    modelVars, runVars >>

\* Config::load() fails: message, exit(1)
LoadConfigFail == StartupExit(1, "config_fail")

\* UI::new fails: main returns the error
UINewFail == StartupExit(1, "ui_fail")

\* help word, or no argument at all
Help ==
    /\ IsKeyword(args, HelpWords) \/ Len(args) = 0
    /\ StartupExit(0, "help")

\* open_config: EDITOR unset exits 1, an error is returned, or it succeeds
OpenConfig ==
    /\ IsKeyword(args, ConfigWords)
    /\ \/ StartupExit(0, "config")
       \/ StartupExit(1, "config_error")

\* r#continue is todo!(): panic
Continue ==
    /\ IsKeyword(args, ContinueWords)
    /\ StartupExit(101, "panic")

Die ==
    /\ IsKeyword(args, DieWords)
    /\ StartupExit(0, "die")

\* the API key check bails
ApiKeyMissing ==
    /\ IsRequest(args)
    /\ api_key_empty
    /\ StartupExit(1, "no_api_key")

\* variant: the request goes out without the key being looked at
BeginRequest_NoKeyCheck ==
    /\ mpc = "start"
    /\ IsRequest(args)
    /\ user_request' = UserRequest(args)
    /\ mpc' = "request"
    /\ UNCHANGED << cfgVars, exit_code, cause, current_command, term,
                    decVars, modelVars, runVars >>

\* the request is taken from the command line and the key is present
BeginRequest ==
    /\ mpc = "start"
    /\ IsRequest(args)
    /\ ~api_key_empty
    /\ user_request' = UserRequest(args)
    /\ mpc' = "request"
    /\ UNCHANGED << cfgVars, exit_code, cause, current_command, term,
                    decVars, modelVars, runVars >>

\* main hands the candidate to the decoder (top of the loop, line 94)
EnterDecoder ==
    /\ dpc' = "display"
    /\ old_tio' = NoTio
    /\ buf' = 0
    /\ next' = 0
    /\ third' = 0
    /\ initial' = << NoText, NoText >>
    /\ edKind' = "None"
    /\ action' = NoAction
    /\ noise' = 0
    /\ lastRead' = NoRead
    /\ editorCalls' = 0
    /\ restores' = 0
    /\ decodeCalls' = decodeCalls + 1
    /\ events' = << >>

\* request_command succeeds: the candidate is set and the loop is entered
RequestOk ==
    /\ mpc = "request"
    /\ \E cmd \in Commands :
          /\ lastResult' = cmd
          /\ current_command' = cmd
    /\ requestCalls' = requestCalls + 1
    /\ mpc' = "decode"
    /\ EnterDecoder
    /\ UNCHANGED << cfgVars, user_request, exit_code, cause, term,
                    refineCalls, lastRefine, runVars >>

\* variant: a failed request is issued again
RequestFail_Retries ==
    /\ mpc = "request"
    /\ requestCalls' = requestCalls + 1
    /\ UNCHANGED << cfgVars, mainVars, term, decVars, refineCalls,
                    lastRefine, lastResult, runVars >>

\* request_command fails: show_error, exit(1)
RequestFail ==
    /\ mpc = "request"
    /\ requestCalls' = requestCalls + 1
    /\ Exit(1, "request_fail")
    /\ UNCHANGED << cfgVars, user_request, current_command, term, decVars,
                    refineCalls, lastRefine, lastResult, runVars >>


(***************************************************************************)
(* UI::display_command_and_get_action (ui.rs lines 37-132)                 *)
(***************************************************************************)
\* what no decoder step touches
decFrame ==
    UNCHANGED << cfgVars, user_request, exit_code, cause, current_command,
                 modelVars, runVars, decodeCalls >>

\* the call returns act to main's match
DecReturn(act) ==
    /\ dpc' = "idle"
    /\ action' = act
    /\ mpc' = "match"

\* the call goes on
DecStay(pos) ==
    /\ dpc' = pos
    /\ action' = action
    /\ mpc' = mpc

ErrAction == [kind |-> "Err", text |-> NoText]
QuitAction == [kind |-> "Quit", text |-> NoText]

\* the call changes the terminal's settings ("raw", "restore"), writes to
\* the screen ("print") or starts the line editor ("editor")
Emit(es) == events' = events \o es

\* lines 87-93: the arrow path clears the screen lines, quiet or not
ArrowOutput == << "print" >>

\* lines 122-126: the feedback path clears the help line and prints
\* "Refine:" unless quiet
FeedbackOutput == IF quiet THEN << >> ELSE << "print" >>

\* one stdin.read with outcome r
DoRead(r) == lastRead' = [pos |-> dpc, val |-> r]

\* tcsetattr(fd, TCSANOW, &old_tio) succeeds
Restore ==
    /\ term' = old_tio
    /\ restores' = restores + 1

\* lines 38-48: the command and the help line are printed and flushed
DisplayCommand ==
    /\ mpc = "decode" /\ dpc = "display"
    /\ Emit(<< "print" >>)
    /\ DecStay("save")
    /\ UNCHANGED << term, old_tio, buf, next, third, initial, edKind, noise,
                    lastRead, editorCalls, restores >>
    /\ decFrame

\* line 48: the flush fails
DisplayFlushFail ==
    /\ mpc = "decode" /\ dpc = "display"
    /\ Emit(<< "print" >>)
    /\ DecReturn(ErrAction)
    /\ UNCHANGED << term, old_tio, buf, next, third, initial, edKind, noise,
                    lastRead, editorCalls, restores >>
    /\ decFrame

\* line 54: Termios::from_fd fails
CaptureFail ==
    /\ mpc = "decode" /\ dpc = "save"
    /\ Emit(<< >>)
    /\ DecReturn(ErrAction)
    /\ UNCHANGED << term, old_tio, buf, next, third, initial, edKind, noise,
                    lastRead, editorCalls, restores >>
    /\ decFrame

\* variant: the settings are captured after raw mode is set
EnterRaw_CapturesRaw ==
    /\ mpc = "decode" /\ dpc = "save"
    /\ Emit(<< "raw" >>)
    /\ old_tio' = RawMode(term)
    /\ term' = RawMode(term)
    /\ DecStay("first")
    /\ UNCHANGED << buf, next, third, initial, edKind, noise, lastRead, editorCalls, restores >>
    /\ decFrame

\* lines 54-62: the settings are captured and raw mode is entered
EnterRaw ==
    /\ mpc = "decode" /\ dpc = "save"
    /\ Emit(<< "raw" >>)
    /\ old_tio' = term
    /\ term' = RawMode(term)
    /\ DecStay("first")
    /\ UNCHANGED << buf, next, third, initial, edKind, noise, lastRead, editorCalls, restores >>
    /\ decFrame

\* line 62: tcsetattr(new_tio) fails
EnterRawFail ==
    /\ mpc = "decode" /\ dpc = "save"
    /\ Emit(<< >>)
    /\ old_tio' = term
    /\ DecReturn(ErrAction)
    /\ UNCHANGED << term, buf, next, third, initial, edKind, noise, lastRead, editorCalls, restores >>
    /\ decFrame

\* lines 68, 72, 78: a read fails and the error is returned
ReadError ==
    /\ mpc = "decode" /\ dpc \in {"first", "second", "third"}
    /\ Emit(<< >>)
    /\ DoRead(IOERR)
    /\ DecReturn(ErrAction)
    /\ UNCHANGED << term, old_tio, buf, next, third, initial, edKind, noise,
                    editorCalls, restores >>
    /\ decFrame

\* variant: a quiet terminal is taken for a lone ESC
ReadFirstTimeout_Quits ==
    /\ mpc = "decode" /\ dpc = "first"
    /\ Emit(<< >>)
    /\ DoRead(TIMEOUT)
    /\ DecReturn(QuitAction)
    /\ UNCHANGED << term, old_tio, buf, next, third, initial, edKind, noise,
                    editorCalls, restores >>
    /\ decFrame

\* line 68: the read returns 0 bytes; the loop goes round
ReadFirstTimeout ==
    /\ mpc = "decode" /\ dpc = "first"
    /\ Emit(<< >>)
    /\ noise < MaxNoise
    /\ DoRead(TIMEOUT)
    /\ noise' = noise + 1
    /\ DecStay("first")
    /\ UNCHANGED << term, old_tio, buf, next, third, initial, edKind,
                    editorCalls, restores >>
    /\ decFrame

\* lines 68-71: ESC
ReadFirstEsc ==
    /\ mpc = "decode" /\ dpc = "first"
    /\ Emit(<< >>)
    /\ DoRead(ESC)
    /\ buf' = ESC
    /\ next' = 0
    /\ DecStay("second")
    /\ UNCHANGED << term, old_tio, third, initial, edKind, noise,
                    editorCalls, restores >>
    /\ decFrame

\* lines 112-117: Enter
ReadFirstEnter ==
    /\ mpc = "decode" /\ dpc = "first"
    /\ Emit(<< "restore" >>)
    /\ \E b \in Bytes \ {ESC} :
          /\ IsEnter(b)
          /\ DoRead(b)
          /\ buf' = b
    /\ Restore
    /\ DecReturn(RunAction(current_command))
    /\ UNCHANGED << old_tio, next, third, initial, edKind, noise,
                    editorCalls >>
    /\ decFrame

\* variant: the help line is cleared before the terminal is restored
ReadFirstChar_PrintsFirst ==
    /\ mpc = "decode" /\ dpc = "first"
    /\ Emit(FeedbackOutput \o << "restore", "editor" >>)
    /\ refineCalls < MaxRefines
    /\ \E b \in Bytes \ {ESC} :
          /\ ~IsEnter(b)
          /\ DoRead(b)
          /\ buf' = b
          /\ initial' = FeedbackSeed(b)
    /\ Restore
    /\ edKind' = "Feedback"
    /\ editorCalls' = editorCalls + 1
    /\ DecStay("editor")
    /\ UNCHANGED << old_tio, next, third, noise >>
    /\ decFrame

\* lines 119-128: any other byte starts feedback in the line editor
ReadFirstChar ==
    /\ mpc = "decode" /\ dpc = "first"
    /\ Emit(<< "restore" >> \o FeedbackOutput \o << "editor" >>)
    /\ refineCalls < MaxRefines
    /\ \E b \in Bytes \ {ESC} :
          /\ ~IsEnter(b)
          /\ DoRead(b)
          /\ buf' = b
          /\ initial' = FeedbackSeed(b)
    /\ Restore
    /\ edKind' = "Feedback"
    /\ editorCalls' = editorCalls + 1
    /\ DecStay("editor")
    /\ UNCHANGED << old_tio, next, third, noise >>
    /\ decFrame

\* lines 115, 121: tcsetattr(old_tio) fails after a non-ESC byte
RestoreFailFirst ==
    /\ mpc = "decode" /\ dpc = "first"
    /\ Emit(<< >>)
    /\ \E b \in Bytes \ {ESC} :
          /\ DoRead(b)
          /\ buf' = b
    /\ DecReturn(ErrAction)
    /\ UNCHANGED << term, old_tio, next, third, initial, edKind, noise,
                    editorCalls, restores >>
    /\ decFrame

\* variant: a lone ESC is swallowed like any unrecognised sequence
ReadSecondTimeout_Continue ==
    /\ mpc = "decode" /\ dpc = "second"
    /\ Emit(<< >>)
    /\ noise < MaxNoise
    /\ DoRead(TIMEOUT)
    /\ noise' = noise + 1
    /\ DecStay("first")
    /\ UNCHANGED << term, old_tio, buf, next, third, initial, edKind,
                    editorCalls, restores >>
    /\ decFrame

\* lines 72-74: nothing follows ESC within the timeout
ReadSecondTimeout ==
    /\ mpc = "decode" /\ dpc = "second"
    /\ Emit(<< >>)
    /\ DoRead(TIMEOUT)
    /\ DecReturn(QuitAction)
    /\ UNCHANGED << term, old_tio, buf, next, third, initial, edKind, noise,
                    editorCalls, restores >>
    /\ decFrame

\* lines 75-78: ESC '['
ReadSecondBracket ==
    /\ mpc = "decode" /\ dpc = "second"
    /\ Emit(<< >>)
    /\ DoRead(LBRACKET)
    /\ next' = LBRACKET
    /\ third' = 0
    /\ DecStay("third")
    /\ UNCHANGED << term, old_tio, buf, initial, edKind, noise,
                    editorCalls, restores >>
    /\ decFrame

\* variant: the byte after ESC is taken as a key of its own, Enter runs
ReadSecondOther_TakenAlone ==
    /\ mpc = "decode" /\ dpc = "second"
    /\ Emit(<< "restore" >>)
    /\ \E b \in Bytes \ {LBRACKET} :
          /\ IsEnter(b)
          /\ DoRead(b)
    /\ Restore
    /\ DecReturn(RunAction(current_command))
    /\ UNCHANGED << old_tio, buf, next, third, initial, edKind, noise,
                    editorCalls >>
    /\ decFrame

\* line 110: ESC and a byte other than '[': neither branch, loop again
ReadSecondOther ==
    /\ mpc = "decode" /\ dpc = "second"
    /\ Emit(<< >>)
    /\ noise < MaxNoise
    /\ \E b \in Bytes \ {LBRACKET} : DoRead(b)
    /\ noise' = noise + 1
    /\ next' = 0
    /\ DecStay("first")
    /\ UNCHANGED << term, old_tio, buf, third, initial, edKind,
                    editorCalls, restores >>
    /\ decFrame

\* lines 78-81: nothing follows ESC '[' within the timeout
ReadThirdTimeout ==
    /\ mpc = "decode" /\ dpc = "third"
    /\ Emit(<< >>)
    /\ noise < MaxNoise
    /\ DoRead(TIMEOUT)
    /\ noise' = noise + 1
    /\ next' = 0
    /\ third' = 0
    /\ DecStay("first")
    /\ UNCHANGED << term, old_tio, buf, initial, edKind, editorCalls,
                    restores >>
    /\ decFrame

\* variant: an unrecognised sequence is taken for a lone ESC
ReadThirdOther_Quit ==
    /\ mpc = "decode" /\ dpc = "third"
    /\ Emit(<< >>)
    /\ \E b \in Bytes \ ArrowBytes : DoRead(b)
    /\ DecReturn([kind |-> "Quit", text |-> NoText])
    /\ UNCHANGED << term, old_tio, buf, next, third, initial, edKind, noise,
                    editorCalls, restores >>
    /\ decFrame

\* lines 106-108: ESC '[' and a byte that is no arrow
ReadThirdOther ==
    /\ mpc = "decode" /\ dpc = "third"
    /\ Emit(<< >>)
    /\ noise < MaxNoise
    /\ \E b \in Bytes \ ArrowBytes : DoRead(b)
    /\ noise' = noise + 1
    /\ next' = 0
    /\ third' = 0
    /\ DecStay("first")
    /\ UNCHANGED << term, old_tio, buf, initial, edKind, editorCalls,
                    restores >>
    /\ decFrame

\* lines 84-104: an arrow key hands the command to the line editor
ReadThirdArrow ==
    /\ mpc = "decode" /\ dpc = "third"
    /\ Emit(<< "restore" >> \o ArrowOutput \o << "editor" >>)
    /\ \E c \in ArrowBytes :
          /\ ~ArrowSeedPanics(c, current_command)
          /\ DoRead(c)
          /\ third' = c
          /\ initial' = ArrowSeed(c, current_command)
    /\ Restore
    /\ edKind' = "Edit"
    /\ editorCalls' = editorCalls + 1
    /\ DecStay("editor")
    /\ UNCHANGED << old_tio, buf, next, noise >>
    /\ decFrame

\* lines 86-98: left arrow, and command.len() - 1 is no place to split:
\* the terminal is restored, the screen cleared, and the thread panics
ReadThirdArrowPanic ==
    /\ mpc = "decode" /\ dpc = "third"
    /\ Emit(<< "restore" >> \o ArrowOutput)
    /\ \E c \in ArrowBytes :
          /\ ArrowSeedPanics(c, current_command)
          /\ DoRead(c)
          /\ third' = c
    /\ Restore
    /\ dpc' = "aborted"
    /\ Exit(101, "panic")
    /\ UNCHANGED << cfgVars, user_request, current_command, modelVars,
                    runVars, decodeCalls >>
    /\ UNCHANGED << old_tio, buf, next, initial, edKind, action, noise,
                    editorCalls >>

\* line 86: tcsetattr(old_tio) fails on the arrow path
RestoreFailArrow ==
    /\ mpc = "decode" /\ dpc = "third"
    /\ Emit(<< >>)
    /\ \E c \in ArrowBytes :
          /\ DoRead(c)
          /\ third' = c
    /\ DecReturn(ErrAction)
    /\ UNCHANGED << term, old_tio, buf, next, initial, edKind, noise,
                    editorCalls, restores >>
    /\ decFrame

\* line 94: the flush after clearing the screen fails
ArrowFlushFail ==
    /\ mpc = "decode" /\ dpc = "third"
    /\ Emit(<< "restore" >> \o ArrowOutput)
    /\ \E c \in ArrowBytes :
          /\ DoRead(c)
          /\ third' = c
    /\ Restore
    /\ DecReturn(ErrAction)
    /\ UNCHANGED << old_tio, buf, next, initial, edKind, noise,
                    editorCalls >>
    /\ decFrame

(***************************************************************************)
(* UI::get_from_readline_with_prompt (ui.rs lines 134-148)                 *)
(***************************************************************************)
\* the user confirms a line; it is wrapped by the caller's variant
EditorReturn ==
    /\ mpc = "decode" /\ dpc = "editor"
    /\ Emit(<< >>)
    /\ \E line \in EditorLines(initial) :
          DecReturn([kind |-> edKind, text |-> line])
    /\ UNCHANGED << term, old_tio, buf, next, third, initial, edKind, noise,
                    lastRead, editorCalls, restores >>
    /\ decFrame

\* variant: the interrupt ends the process with status 0
EditorInterrupt_ExitsZero ==
    /\ mpc = "decode" /\ dpc = "editor"
    /\ Emit(<< >>)
    /\ dpc' = "aborted"
    /\ Exit(0, "interrupt")
    /\ UNCHANGED << cfgVars, user_request, current_command, modelVars,
                    runVars, decodeCalls, term >>
    /\ UNCHANGED << old_tio, buf, next, third, initial, edKind, action,
                    noise, lastRead, editorCalls, restores >>

\* ReadlineError::Interrupted: std::process::exit(1)
EditorInterrupt ==
    /\ mpc = "decode" /\ dpc = "editor"
    /\ Emit(<< >>)
    /\ dpc' = "aborted"
    /\ Exit(1, "interrupt")
    /\ UNCHANGED << cfgVars, user_request, current_command, modelVars,
                    runVars, decodeCalls, term >>
    /\ UNCHANGED << old_tio, buf, next, third, initial, edKind, action,
                    noise, lastRead, editorCalls, restores >>

\* any other readline error is returned
EditorError ==
    /\ mpc = "decode" /\ dpc = "editor"
    /\ Emit(<< >>)
    /\ DecReturn(ErrAction)
    /\ UNCHANGED << term, old_tio, buf, next, third, initial, edKind, noise,
                    lastRead, editorCalls, restores >>
    /\ decFrame


(***************************************************************************)
(* main: the interaction loop (main.rs lines 93-133) and run_command       *)
(***************************************************************************)
\* run_command(cmd, &config.shell) followed by break, or by `?`
RunCommand(cmd) ==
    /\ runCalls' = runCalls + 1
    /\ lastRun' = cmd
    /\ \/ /\ shell = << >>            \* "Invalid shell configuration"
          /\ Exit(1, "exec_fail")
          /\ UNCHANGED << spawnCalls, lastSpawn >>
       \/ /\ shell # << >>
          /\ spawnCalls' = spawnCalls + 1
          /\ lastSpawn' = ShellArgv(cmd, shell)
          /\ \/ Exit(0, "executed")   \* status.success()
             \/ Exit(1, "exec_fail")  \* spawn error or non-zero status
    /\ UNCHANGED << cfgVars, user_request, current_command, term, decVars,
                    modelVars >>

\* lines 95-99
MatchRunCommand ==
    /\ mpc = "match" /\ action.kind = "Run"
    /\ RunCommand(action.text)

\* variant: the candidate is run instead of the edited text
MatchEditCommand_RunsCandidate ==
    /\ mpc = "match" /\ action.kind = "Edit"
    /\ RunCommand(current_command)

\* lines 100-104
MatchEditCommand ==
    /\ mpc = "match" /\ action.kind = "Edit"
    /\ RunCommand(action.text)

\* variant: the feedback is passed in the place of the previous command
CallRefine_FeedbackAsPrevious ==
    /\ refineCalls' = refineCalls + 1
    /\ lastRefine' = [request |-> user_request,
                      previous |-> action.text,
                      feedback |-> current_command]

\* the refine_command call of lines 108-115
CallRefine ==
    /\ refineCalls' = refineCalls + 1
    /\ lastRefine' = [request |-> user_request,
                      previous |-> current_command,
                      feedback |-> action.text]

\* variant: the refined command is received and the old candidate is kept
MatchFeedbackOk_KeepsCandidate ==
    /\ mpc = "match" /\ action.kind = "Feedback"
    /\ CallRefine
    /\ \E new_cmd \in Commands : lastResult' = new_cmd
    /\ mpc' = "decode"
    /\ EnterDecoder
    /\ UNCHANGED << cfgVars, user_request, exit_code, cause, term,
                    current_command, requestCalls, runVars >>

\* lines 105-119: refine succeeds, the candidate is replaced, loop again
MatchFeedbackOk ==
    /\ mpc = "match" /\ action.kind = "Feedback"
    /\ CallRefine
    /\ \E new_cmd \in Commands :
          /\ lastResult' = new_cmd
          /\ current_command' = new_cmd
    /\ mpc' = "decode"
    /\ EnterDecoder
    /\ UNCHANGED << cfgVars, user_request, exit_code, cause, term,
                    requestCalls, runVars >>

\* lines 120-123: refine fails: show_error, break, Ok(())
MatchFeedbackFail ==
    /\ mpc = "match" /\ action.kind = "Feedback"
    /\ CallRefine
    /\ Exit(0, "refine_fail")
    /\ UNCHANGED << cfgVars, user_request, current_command, term, decVars,
                    requestCalls, lastResult, runVars >>

\* variant: Quit runs the candidate like Run does
MatchQuit_RunsCandidate ==
    /\ mpc = "match" /\ action.kind = "Quit"
    /\ RunCommand(current_command)

\* lines 126-128
MatchQuit ==
    /\ mpc = "match" /\ action.kind = "Quit"
    /\ Exit(0, "quit")
    /\ UNCHANGED << cfgVars, user_request, current_command, term, decVars,
                    modelVars, runVars >>

\* variant: the decoder's error is dropped and the command is shown again
MatchError_ShowsAgain ==
    /\ mpc = "match" /\ action.kind = "Err"
    /\ mpc' = "decode"
    /\ EnterDecoder
    /\ UNCHANGED << cfgVars, user_request, exit_code, cause, current_command,
                    term, modelVars, runVars >>

\* line 94: `?` on the decoder's error
MatchError ==
    /\ mpc = "match" /\ action.kind = "Err"
    /\ Exit(1, "decode_error")
    /\ UNCHANGED << cfgVars, user_request, current_command, term, decVars,
                    modelVars, runVars >>

(***************************************************************************)
(* Specification                                                           *)
(***************************************************************************)
Next ==
    \/ LoadConfigFail
    \/ UINewFail
    \/ Help
    \/ OpenConfig
    \/ Continue
    \/ Die
    \/ ApiKeyMissing
    \/ BeginRequest
    \/ RequestOk
    \/ RequestFail
    \/ DisplayCommand
    \/ DisplayFlushFail
    \/ CaptureFail
    \/ EnterRaw
    \/ EnterRawFail
    \/ ReadError
    \/ ReadFirstTimeout
    \/ ReadFirstEsc
    \/ ReadFirstEnter
    \/ ReadFirstChar
    \/ RestoreFailFirst
    \/ ReadSecondTimeout
    \/ ReadSecondBracket
    \/ ReadSecondOther
    \/ ReadThirdTimeout
    \/ ReadThirdOther
    \/ ReadThirdArrow
    \/ ReadThirdArrowPanic
    \/ RestoreFailArrow
    \/ ArrowFlushFail
    \/ EditorReturn
    \/ EditorInterrupt
    \/ EditorError
    \/ MatchRunCommand
    \/ MatchEditCommand
    \/ MatchFeedbackOk
    \/ MatchFeedbackFail
    \/ MatchQuit
    \/ MatchError

Spec == Init /\ [][Next]_vars

\* the process is one thread that runs until it exits: whenever it has a
\* next step it takes one.  That the collaborators, the line editor and the
\* decoder's reads come back is part of it; that the decoder does not poll
\* for ever and the user does not refine for ever is what MaxNoise and
\* MaxRefines say.  No guard reads the terminal's settings or the quiet
\* flag, so which steps can follow which is the same for every value of
\* them, and one value of each is enough here.
LiveInit ==
    /\ Init
    /\ ~quiet
    /\ "ECHO" \in orig.lflag

LiveSpec == LiveInit /\ [][Next]_vars /\ WF_vars(Next)

TypeOK ==
    /\ mpc \in {"start", "request", "decode", "match", "exited"}
    /\ dpc \in {"idle", "display", "save", "first", "second", "third",
                "editor", "aborted"}
    /\ exit_code \in {-1, 0, 1, 101}
    /\ action.kind \in {"None", "Run", "Edit", "Feedback", "Quit", "Err"}
    /\ noise \in 0 .. MaxNoise
    /\ refineCalls \in 0 .. MaxRefines


(***************************************************************************)
(* Properties                                                              *)
(***************************************************************************)
\* the decoder has just returned a Session Action to main
Returned(kinds) == mpc = "match" /\ action.kind \in kinds

\* a step in which the read at loop position pos delivers one of vals
ReadsAt(pos, vals) == dpc = pos /\ lastRead'.pos = pos /\ lastRead'.val \in vals

\* C1: whenever the decoder returns Run, Edit, Feedback or Quit, the
\* terminal's settings at that moment are the settings the call captured
\* before it entered raw mode.
C1_RestoredAtReturn ==
    Returned({"Run", "Edit", "Feedback", "Quit"}) => term = old_tio

\* C2: the exit status is 0 after a successful execution or a clean Quit,
\* and non-zero after a configuration-load, request, refine or execute
\* failure and after an interrupt in the line editor.
C2_ExitStatus ==
    mpc = "exited" =>
        /\ cause \in {"executed", "quit"} => exit_code = 0
        /\ cause \in {"config_fail", "request_fail", "refine_fail",
                      "exec_fail", "interrupt"} => exit_code # 0

\* C3: when the byte read at the top of the loop is CR or LF, the call
\* returns Run carrying the candidate byte for byte, and the line editor has
\* not been invoked (the one other outcome is the error of a failed
\* tcsetattr); and a Run is never returned in any other way.
C3_EnterRunsCandidate ==
    [][ /\ ReadsAt("first", {CR, LF}) =>
            \/ /\ dpc' = "idle" /\ mpc' = "match"
               /\ action' = [kind |-> "Run", text |-> current_command]
               /\ current_command' = current_command
               /\ editorCalls' = 0
            \/ action'.kind = "Err"
        /\ action'.kind = "Run" =>
            /\ action'.text = current_command'
            /\ buf' \in {CR, LF}
            /\ editorCalls' = 0 ]_vars

C3_Witness ==
    /\ Returned({"Run"})
    /\ lastRead = [pos |-> "first", val |-> CR]
    /\ action.text = <<101, 195, 169>>
    /\ editorCalls = 0

\* C4: when the read that follows ESC times out, the call returns Quit in
\* that very step: no further read is made and the line editor is not
\* invoked; and Quit is returned in no other way.
C4_LoneEscQuits ==
    [][ /\ ReadsAt("second", {TIMEOUT}) =>
            /\ dpc' = "idle" /\ mpc' = "match"
            /\ action' = [kind |-> "Quit", text |-> NoText]
            /\ editorCalls' = 0
        /\ action'.kind = "Quit" =>
            /\ lastRead' = [pos |-> "second", val |-> TIMEOUT]
            /\ buf' = ESC
            /\ dpc' = "idle"
            /\ editorCalls' = 0 ]_vars

C4_Witness ==
    /\ Returned({"Quit"})
    /\ lastRead = [pos |-> "second", val |-> TIMEOUT]
    /\ editorCalls = 0

\* C5: every byte other than ESC, CR and LF read at the top of the loop
\* hands off to the line editor with the seed (exactly that byte, empty
\* tail), and the line the editor returns is wrapped in Feedback.
C5_SeedIsTheByte ==
    /\ (dpc = "editor" /\ edKind = "Feedback") =>
           /\ buf \notin {ESC, CR, LF}
           /\ initial = << << buf >>, << >> >>
    /\ Returned({"Feedback"}) =>
           action.text \in EditorLines(<< << buf >>, << >> >>)

\* C6: on ESC '[' 'D' with a non-empty candidate the line editor is seeded
\* with (candidate without its last byte, last byte) and its line is
\* wrapped in Edit (the one other outcome is the error of a failed
\* tcsetattr or flush).
C6_LeftArrowSeed ==
    [][ (ReadsAt("third", {LEFT}) /\ Len(current_command) > 0) =>
            \/ /\ dpc' = "editor"
               /\ edKind' = "Edit"
               /\ initial' =
                    << SubSeq(current_command, 1, Len(current_command) - 1),
                       << current_command[Len(current_command)] >> >>
            \/ action'.kind = "Err" ]_vars

\* C7: on ESC '[' 'C' the line editor is seeded with the whole candidate
\* before the cursor and an empty tail, for every candidate, and the line it
\* returns is wrapped in Edit (the other outcomes are errors: a failed
\* tcsetattr or flush, a readline error).
C7_RightArrowSeed ==
    [][ /\ ReadsAt("third", {67}) =>
            \/ /\ dpc' = "editor"
               /\ edKind' = "Edit"
               /\ editorCalls' = 1
               /\ initial' = << current_command, << >> >>
            \/ action'.kind = "Err"
        /\ (dpc = "editor" /\ third = 67 /\ dpc' = "idle") =>
            \/ /\ action'.kind = "Edit"
               /\ action'.text \in EditorLines(<< current_command, << >> >>)
            \/ action'.kind = "Err" ]_vars

C7_Witness ==
    /\ Returned({"Edit"})
    /\ third = 67
    /\ initial = << current_command, << >> >>
    /\ current_command = <<101, 195, 169>>
    /\ action.text = <<101, 195, 169, 120>>

DecidedByLastKey ==
    /\ action.kind = "Run" =>
          buf \in {CR, LF} /\ action.text = current_command
    /\ action.kind = "Quit" =>
          buf = ESC /\ lastRead = [pos |-> "second", val |-> TIMEOUT]
    /\ (dpc = "editor" /\ edKind = "Edit") =>
          /\ buf = ESC /\ next = LBRACKET /\ third \in ArrowBytes
          /\ initial[1] \o initial[2] = current_command
          /\ Len(initial[2]) = (IF third = LEFT THEN 1 ELSE 0)
    /\ (dpc = "editor" /\ edKind = "Feedback") =>
          /\ buf \notin {ESC, CR, LF}
          /\ initial = << EncodeUtf8(buf), << >> >>
    /\ action.kind \in {"Edit", "Feedback"} =>
          action.kind = edKind /\ action.text \in EditorLines(initial)

\* C9: after ESC '[' and a third byte that is no arrow, or a third read that
\* times out, the call returns nothing and is back at the top of its loop
\* with the terminal, the captured settings and the candidate untouched; the
\* action it returns later rests on the last key alone.
C9_UnrecognisedSwallowed ==
    [][ /\ ReadsAt("third", ({TIMEOUT} \cup Bytes) \ ArrowBytes) =>
            /\ dpc' = "first" /\ mpc' = "decode"
            /\ action' = NoAction
            /\ UNCHANGED << term, old_tio, current_command, editorCalls,
                            restores, initial, edKind, decodeCalls >>
        /\ DecidedByLastKey' ]_vars

C9_Witness ==
    /\ mpc = "decode" /\ dpc = "first"
    /\ lastRead = [pos |-> "third", val |-> 90]
    /\ action = NoAction
    /\ term = RawMode(orig)

\* C10: an Edit action takes main in one step to run_command with exactly
\* the edited text and then out of the session: no request, no refine and
\* no decode call happens between the action and the exit, and nothing
\* happens after it.
C10_EditRunsVerbatim ==
    [][ /\ (mpc = "match" /\ action.kind = "Edit") =>
            /\ mpc' = "exited"
            /\ runCalls' = runCalls + 1
            /\ lastRun' = action.text
            /\ UNCHANGED << requestCalls, refineCalls, lastRefine,
                            decodeCalls, current_command >>
        /\ mpc # "exited" ]_vars

C10_Witness ==
    /\ mpc = "exited" /\ cause = "executed"
    /\ action.kind = "Edit"
    /\ current_command = <<108, 115>>
    /\ lastRun = <<108, 115, 120>>
    /\ requestCalls = 1 /\ refineCalls = 0 /\ decodeCalls = 1


C12_VerbatimAfterDashC ==
    spawnCalls > 0 => lastSpawn = shell \o << W_dashc, lastRun >>

\* C12 amended: for every non-empty shell specification the process spawned
\* is the configured shell followed by "-c" and one more argument; that
\* argument is the command text as received when the shell's name contains
\* neither "bash" nor "zsh", and otherwise the line
\* "shopt -s extglob globstar nullglob" followed by the command text as
\* received.  With an empty shell specification nothing is spawned.
C12_VerbatimOrShoptPrefixed ==
    /\ spawnCalls > 0 =>
          /\ shell # << >>
          /\ Len(lastSpawn) = Len(shell) + 2
          /\ SubSeq(lastSpawn, 1, Len(shell)) = shell
          /\ lastSpawn[Len(shell) + 1] = W_dashc
          /\ lastSpawn[Len(shell) + 2] =
                IF \/ Contains(shell[Len(shell)], W_bash)
                   \/ Contains(shell[Len(shell)], W_zsh)
                THEN ShoptPrefix \o lastRun
                ELSE lastRun
          /\ lastRun = action.text
          /\ action.kind \in {"Run", "Edit"}
    /\ (runCalls > 0 /\ shell = << >>) => spawnCalls = 0

C12_Witness ==
    /\ spawnCalls = 1
    /\ shell = << W_env, W_bash >>
    /\ action.kind = "Edit"
    /\ lastRun = <<108, 115, 120>>
    /\ lastSpawn = << W_env, W_bash, W_dashc,
                      ShoptPrefix \o <<108, 115, 120>> >>

\* C13: when a read fails inside the decode loop, the call returns the
\* error with the terminal's settings back at what the call captured.
C13_ReadErrorRestores ==
    (action.kind = "Err" /\ lastRead.val = IOERR) => term = old_tio

At(e) == { i \in 1 .. Len(events) : events[i] = e }

\* C15: in a decode call that hands off to the line editor, the captured
\* settings are written back exactly once after raw mode was entered, and
\* that happens before anything printed after raw mode was entered and
\* before the line editor starts; while the editor runs the terminal is not
\* in the decoder's raw mode.
C15_RestoreOnceBeforeHandOff ==
    /\ At("editor") # {} =>
          /\ restores = 1
          /\ Cardinality(At("raw")) = 1
          /\ Cardinality(At("restore")) = 1
          /\ \A r \in At("raw") : \A t \in At("restore") :
                /\ r < t
                /\ \A i \in At("print") \cup At("editor") : i > r => i > t
    /\ dpc = "editor" =>
          /\ At("editor") # {}
          /\ term = old_tio
          /\ term # RawMode(old_tio)
          /\ "ICANON" \in term.lflag

C15_Witness ==
    /\ dpc = "editor" /\ edKind = "Feedback"
    /\ events = << "print", "raw", "restore", "print", "editor" >>
    /\ term = orig

\* C16: Ctrl-C or Ctrl-D (byte 0x03 or 0x04) read at the top of the loop
\* makes the call return Quit.
C16_CtrlCOrCtrlDQuits ==
    [][ ReadsAt("first", {3, 4}) =>
            /\ dpc' = "idle"
            /\ action'.kind \in {"Quit", "Err"} ]_vars

\* C17: the settings every decode call captures are the terminal's
\* settings from before the session, never the raw ones, and every restore
\* writes back what that same call captured.
C17_CapturedIsPreSession ==
    [][ /\ old_tio' # NoTio =>
            /\ old_tio' = orig
            /\ "ICANON" \in old_tio'.lflag
            /\ old_tio'.vmin # 0
        /\ (old_tio' # old_tio /\ old_tio' # NoTio) => old_tio' = term
        /\ restores' = restores + 1 =>
            /\ old_tio' = old_tio
            /\ term' = old_tio ]_vars

C17_Witness ==
    /\ decodeCalls = 2
    /\ Returned({"Run"})
    /\ restores = 1
    /\ old_tio = orig /\ term = orig
    /\ events = << "print", "raw", "restore" >>

\* C18: request_command is called once per session, refine_command once
\* per Feedback action, and a failed call of either ends the session in the
\* same step: no model call, decode call or execution follows.
C18_NoRetry ==
    [][ /\ requestCalls' <= 1
        /\ requestCalls' # requestCalls => mpc = "request" /\ mpc' # "request"
        /\ refineCalls' # refineCalls =>
            /\ refineCalls' = refineCalls + 1
            /\ mpc = "match" /\ action.kind = "Feedback"
            /\ mpc' = "exited" \/ action' = NoAction
        /\ refineCalls' <= decodeCalls'
        /\ (refineCalls' = decodeCalls' /\ decodeCalls' > 0) =>
              cause' = "refine_fail"
        /\ (cause' \in {"request_fail", "refine_fail"} /\ cause = "running") =>
            /\ mpc' = "exited"
            /\ UNCHANGED << decodeCalls, runCalls, spawnCalls >>
        /\ cause \notin {"request_fail", "refine_fail"} ]_vars

C18_Witness ==
    /\ mpc = "exited" /\ cause = "refine_fail"
    /\ requestCalls = 1 /\ refineCalls = 1 /\ decodeCalls = 1
    /\ runCalls = 0

\* C19: run_command is called at most once in a session, and only by the
\* step that consumes a Run or an Edit action; a session that ends by Quit,
\* by a failed request or by a failed refine has executed nothing.
C19_RunOnlyOnRunOrEdit ==
    [][ /\ runCalls' # runCalls =>
            /\ runCalls = 0 /\ runCalls' = 1
            /\ mpc = "match" /\ action.kind \in {"Run", "Edit"}
            /\ mpc' = "exited"
        /\ spawnCalls' # spawnCalls =>
            /\ runCalls' # runCalls
            /\ spawnCalls' = 1
        /\ cause' \in {"quit", "request_fail", "refine_fail"} =>
            runCalls' = 0 /\ spawnCalls' = 0 ]_vars

C19_Witness ==
    /\ mpc = "exited" /\ cause = "executed"
    /\ action.kind = "Run"
    /\ runCalls = 1 /\ spawnCalls = 1
    /\ refineCalls = 1

\* C20: for every candidate, the empty one included, ESC '[' 'D' hands off
\* to the line editor (or returns an I/O error); the process is never
\* aborted by that key.
C20_LeftArrowNeverAborts ==
    [][ ReadsAt("third", {LEFT}) =>
            /\ mpc' # "exited"
            /\ dpc' = "editor" \/ action'.kind = "Err" ]_vars

C22_EscThenOtherSwallowed ==
    [][ /\ ReadsAt("second", Bytes \ {LBRACKET}) =>
            /\ dpc' = "first" /\ mpc' = "decode"
            /\ action' = NoAction
            /\ term' = RawMode(old_tio)
            /\ UNCHANGED << term, old_tio, current_command, editorCalls,
                            restores, events, initial, edKind, decodeCalls,
                            runCalls, refineCalls, exit_code >>
        /\ dpc = "second" => action'.kind \notin {"Run", "Edit", "Feedback"}
        /\ (dpc = "second" /\ action'.kind = "Quit") =>
            lastRead'.val = TIMEOUT
        /\ DecidedByLastKey' ]_vars

C22_Witness ==
    /\ mpc = "decode" /\ dpc = "first"
    /\ lastRead = [pos |-> "second", val |-> CR]
    /\ buf = ESC
    /\ action = NoAction
    /\ term = RawMode(orig)
    /\ events = << "print", "raw" >>

\* how a session that was started and whose decode calls all returned ends:
\* in execution (run_command was called), or in quit (the Quit action, or a
\* failed request, refine or decode call, which end the session the same
\* way with nothing run)
EndsInExecution == cause \in {"executed", "exec_fail"} /\ runCalls = 1
EndsInQuit ==
    /\ cause \in {"quit", "request_fail", "refine_fail", "decode_error"}
    /\ runCalls = 0

\* C23: every run of the process ends; a session that was started and in
\* which every decode call returned ends in execution or in quit; main
\* consumes every action in one step, and that step ends the session unless
\* the action is Feedback and the refine call succeeds, which is the only
\* step that starts another decode call.
C23_SessionEnds ==
    /\ <>(mpc = "exited")
    /\ [][ /\ (mpc' = "exited" /\ requestCalls' > 0 /\ dpc' # "aborted") =>
                EndsInExecution' \/ EndsInQuit'
           /\ (mpc = "match" /\ action.kind # "Feedback") => mpc' = "exited"
           /\ mpc = "match" => mpc' \in {"exited", "decode"}
           /\ (decodeCalls' # decodeCalls /\ decodeCalls > 0) =>
                /\ mpc = "match" /\ action.kind = "Feedback"
                /\ refineCalls' = refineCalls + 1
                /\ cause' = "running"
                /\ current_command' = lastResult'
           /\ mpc = "exited" => UNCHANGED vars ]_vars

C23_Witness ==
    /\ mpc = "exited" /\ cause = "quit"
    /\ decodeCalls = 2 /\ refineCalls = 1
    /\ noise = MaxNoise
    /\ runCalls = 0

\* C24: a read at the top of the loop that returns 0 bytes leaves the call
\* where it was: no action, the next step is again a read at the top of the
\* loop, the terminal stays raw and nothing is printed, restored or
\* started.  A call in which no byte has been read has returned no action,
\* and every Run, Quit, Edit or Feedback comes out of a call in which the
\* read at the top of the loop delivered a byte.
C24_TimeoutNeverDecides ==
    [][ /\ ReadsAt("first", {TIMEOUT}) =>
            /\ dpc' = "first" /\ mpc' = "decode"
            /\ action' = NoAction
            /\ term' = RawMode(old_tio)
            /\ UNCHANGED << term, old_tio, buf, current_command, events,
                            restores, editorCalls, initial, edKind,
                            decodeCalls, runCalls, refineCalls, exit_code >>
        /\ (mpc' = "decode" /\ buf' = 0) =>
            /\ action' = NoAction
            /\ dpc' \in {"display", "save", "first"}
            /\ lastRead'.val \in {NOREAD, TIMEOUT}
        /\ action'.kind \in {"Run", "Quit", "Edit", "Feedback"} =>
            /\ buf' \in Bytes
            /\ lastRead' # [pos |-> "first", val |-> TIMEOUT] ]_vars

C24_Witness ==
    /\ mpc = "decode" /\ dpc = "first"
    /\ lastRead = [pos |-> "first", val |-> TIMEOUT]
    /\ noise = MaxNoise
    /\ buf = 0
    /\ action = NoAction
    /\ term = RawMode(orig)

====
